---- MODULE Spec2Model ----
(***************************************************************************)
(* orm-epub-to-speech: the chunker (split_content_into_chunks), the        *)
(* sectioner (split_markdown_into_sections), the naming of the chunk       *)
(* files, the orchestrator (generate_speech_from_markdown), the speak      *)
(* command, the speech services and the concatenator (merge_audio_files).  *)
(*                                                                         *)
(* Text is a sequence of one-character strings.  Python indices are        *)
(* 0-based; sequences here are 1-based, section_ix and chunk_ix keep the   *)
(* 0-based values of the code.                                             *)
(***************************************************************************)
EXTENDS Integers, Sequences, FiniteSets

VARIABLES
    chunker,   \* the chunker's input and result
    merger,    \* the concatenator's input and result
    sectioner, \* the sectioner's input and result
    namer,     \* two units of one run and the paths computed for them
    doc,       \* the markdown file: chunks per section
    opts,      \* the options of the speak command
    now,       \* the least int(time.time()) can be by now
    fs,        \* paths of the chunk files that exist
    dirs,      \* temporary directories that exist
    removed,   \* the shutil.rmtree calls so far: the directory and the caller
    run,       \* the invocations of speak
    calls      \* the calls made on the speech service so far

vars == <<chunker, merger, sectioner, namer, doc, opts, now, fs, dirs, removed, run, calls>>

pipeline_vars == <<doc, opts, now, fs, dirs, removed, run, calls>>

(***************************************************************************)
(* Bounds of the model.                                                    *)
(***************************************************************************)
\* longest content string given to the chunker
MaxLen == 6
\* largest max_chars given to the chunker
MaxMaxChars == 4

\* the characters content is made of: a letter, the period, and two
\* whitespace characters (str.strip() removes both)
Chars == {"a", ".", " ", "\n"}

Whitespace == {" ", "\n"}

RECURSIVE StringsOfLen(_)
StringsOfLen(n) ==
    IF n = 0 THEN {<<>>}
    ELSE {Append(s, c) : s \in StringsOfLen(n - 1), c \in Chars}

Strings == UNION {StringsOfLen(n) : n \in 0..MaxLen}

(***************************************************************************)
(* Python string primitives used by split_content_into_chunks.             *)
(***************************************************************************)
\* s[p:] for a 1-based p
Drop(s, p) == SubSeq(s, p, Len(s))

RECURSIVE lstrip(_)
lstrip(s) ==
    IF s # <<>> /\ Head(s) \in Whitespace THEN lstrip(Tail(s)) ELSE s

RECURSIVE rstrip(_)
rstrip(s) ==
    IF s # <<>> /\ s[Len(s)] \in Whitespace
    THEN rstrip(SubSeq(s, 1, Len(s) - 1))
    ELSE s

\* str.strip(): leading and trailing whitespace removed
strip(s) == rstrip(lstrip(s))

\* str.split('. '): left to right, non-overlapping; always at least one piece
RECURSIVE split_from(_, _, _)
split_from(s, p, piece) ==
    IF p > Len(s) THEN <<piece>>
    ELSE IF p < Len(s) /\ s[p] = "." /\ s[p + 1] = " "
         THEN <<piece>> \o split_from(s, p + 2, <<>>)
         ELSE split_from(s, p + 1, Append(piece, s[p]))

split(s) == split_from(s, 1, <<>>)

(***************************************************************************)
(* split_content_into_chunks                                               *)
(***************************************************************************)
\* mutant: the delimiter is not put back on the sentence
ReattachNothing(sentences, i) == sentences[i]

\* lines 173-175: every sentence but the last gets its ". " back
Reattach(sentences, i) ==
    IF i < Len(sentences) THEN sentences[i] \o <<".", " ">> ELSE sentences[i]

\* mutant: only the sentence is measured, not the running chunk with it
OverflowsSentenceOnly(current_chunk, sentence, max_chars) ==
    Len(sentence) > max_chars

\* line 177
Overflows(current_chunk, sentence, max_chars) ==
    Len(current_chunk) + Len(sentence) > max_chars

\* The loop of lines 172-182, from sentence i on.  members is the list of the
\* sentence numbers accumulated in current_chunk and groups the lists of the
\* chunks already appended: bookkeeping the code does not keep, which the
\* statements about "a chunk of one sentence" read.
RECURSIVE chunk_loop(_, _, _, _, _, _, _)
chunk_loop(sentences, i, max_chars, chunks, current_chunk, groups, members) ==
    IF i > Len(sentences)
    THEN \* lines 184-185
         IF current_chunk # <<>>
         THEN [chunks |-> Append(chunks, strip(current_chunk)),
               groups |-> Append(groups, members)]
         ELSE [chunks |-> chunks, groups |-> groups]
    ELSE LET sentence == Reattach(sentences, i) IN
         IF Overflows(current_chunk, sentence, max_chars)
         THEN chunk_loop(sentences, i + 1, max_chars,
                         Append(chunks, strip(current_chunk)), sentence,
                         Append(groups, members), <<i>>)
         ELSE chunk_loop(sentences, i + 1, max_chars,
                         chunks, current_chunk \o sentence,
                         groups, Append(members, i))

chunk_run(content, max_chars) ==
    chunk_loop(split(content), 1, max_chars, <<>>, <<>>, <<>>, <<>>)

split_content_into_chunks(content, max_chars) ==
    chunk_run(content, max_chars).chunks

(***************************************************************************)
(* The chunker as a state machine: an input is drawn, then split.          *)
(***************************************************************************)
ChunkerIdle == [phase |-> "idle", content |-> <<>>, max_chars |-> 1,
                chunks |-> <<>>, groups |-> <<>>]

ChunkerInputs ==
    {[phase |-> "input", content |-> c, max_chars |-> m,
      chunks |-> <<>>, groups |-> <<>>] : c \in Strings, m \in 1..MaxMaxChars}

SplitContent ==
    /\ chunker.phase = "input"
    /\ LET r == chunk_run(chunker.content, chunker.max_chars) IN
       chunker' = [chunker EXCEPT !.phase = "split",
                                  !.chunks = r.chunks,
                                  !.groups = r.groups]
    /\ UNCHANGED <<merger, sectioner, namer, pipeline_vars>>


(***************************************************************************)
(* The speak command and the orchestrator.                                 *)
(***************************************************************************)
\* invocations of the speak command on one output directory
MaxInvocations == 2
\* the last value of int(time.time()) the model reaches; the clock starts at 1
MaxClock == 2
\* chunks of the markdown file, all sections together
MaxChunks == 2

Invocations == 1..MaxInvocations

\* main.py line 42: click.Choice
Services == {"openai", "google", "azure"}

OPENAI_VOICES == {"alloy", "echo", "fable", "onyx", "nova", "shimmer"}

GOOGLE_VOICES == {"female", "male"}

AZURE_VOICES ==
    {"cora", "adam", "nancy", "emma", "jane", "jason", "davis", "samuel"}

\* the --voice values the model passes: "none" is the option left out, then
\* one alias of each service and an alias of no service
VoiceOptions == {"none", "alloy", "female", "samuel", "xyz"}

\* main.py lines 81-86
valid_voices(service) ==
    CASE service = "openai" -> OPENAI_VOICES
      [] service = "google" -> GOOGLE_VOICES
      [] service = "azure" -> AZURE_VOICES

\* mutant: the alias is not looked up
voice_never_rejected(service, voice) == FALSE

\* main.py lines 94-99: click.BadParameter
voice_rejected(service, voice) ==
    voice # "none" /\ voice \notin valid_voices(service)

\* The speech service the orchestrator talks to: the classes of
\* speech_services.py as shipped, or calls intercepted by a test double that
\* returns audio bytes or raises.
Backends == {"shipped", "intercepted"}

\* What is run: the speak command, or generate_speech_from_markdown itself,
\* called on a working directory of the caller's.
Entries == {"speak", "generate"}

\* Every combination of options of speak on the shipped services.  With the
\* double, which treats every service, voice and mode alike, the defaults;
\* generate_speech_from_markdown is called on its own with the double only.
Options ==
    {o \in [service : Services, voice : VoiceOptions, use_ssml : BOOLEAN,
            backend : Backends, entry : Entries] :
        /\ o.backend = "intercepted"
           => (o.service = "openai" /\ o.voice = "none" /\ ~o.use_ssml)
        /\ o.entry = "generate" => o.backend = "intercepted"}

\* A markdown file, as the orchestrator sees it after sectioning and
\* chunking: the number of chunks of each section, in document order.
RECURSIVE sum(_)
sum(counts) == IF counts = <<>> THEN 0 ELSE Head(counts) + sum(Tail(counts))

Documents ==
    {d \in UNION {[1..n -> 1..MaxChunks] : n \in 1..MaxChunks} :
        sum(d) <= MaxChunks}

\* main.py line 54: temp_<int(time.time())> under the output directory
temp_dir_of(clock) == clock

\* the output_dir argument when generate_speech_from_markdown is called on
\* its own: one directory, which exists
work_dir == temp_dir_of(0)

\* speech_generator.py line 57: the 1-based ordinal leads the basename (the
\* slug of the title follows it and is the same for every chunk of a section)
file_basename(section_ix) == section_ix + 1

\* speech_generator.py lines 66-69: pt is -1 where the name has no _ptNN
filename(section_ix, chunk_ix, n_chunks) ==
    [base |-> file_basename(section_ix),
     pt |-> IF n_chunks = 1 THEN -1 ELSE chunk_ix]

\* speech_generator.py line 70
output_path(dir, section_ix, chunk_ix, n_chunks) ==
    <<dir, filename(section_ix, chunk_ix, n_chunks)>>

\* mutant: the existence check is dropped
never_skip(files, path) == FALSE

\* speech_generator.py line 72
should_skip(files, path) == path \in files

\* speech_generator.py lines 61 and 76
ssml_path(use_ssml, service) == use_ssml /\ service = "azure"

(***************************************************************************)
(* speech_services.py                                                      *)
(***************************************************************************)
\* positional parameters of synthesize_speech_from_text after self:
\* (text, filename) for OpenAI and Google, (text) for Azure
text_parameters(service) ==
    IF service \in {"openai", "google"} THEN {"text", "filename"} ELSE {"text"}

\* attributes AzureSpeechService.__init__ sets on self; speechsdk is a local
\* name of __init__ only
azure_attributes == {"synthesizer"}

\* What one call of the method does: a call with the wrong number of
\* arguments raises TypeError before the body runs; Azure's body asks the
\* provider and then reads self.speechsdk.  accepted: the provider takes the
\* input.  reached: the request went out to the provider.
synthesize_speech_from_text(service, n_args, accepted) ==
    IF n_args # Cardinality(text_parameters(service))
    THEN [outcome |-> "TypeError", reached |-> FALSE]
    ELSE IF service = "azure"
    THEN IF "speechsdk" \notin azure_attributes
         THEN [outcome |-> "AttributeError", reached |-> TRUE]
         ELSE [outcome |-> IF accepted THEN "bytes" ELSE "RuntimeError",
               reached |-> TRUE]
    ELSE [outcome |-> IF accepted THEN "bytes" ELSE "ProviderError",
          reached |-> TRUE]

\* AzureSpeechService.synthesize_speech_from_ssml(ssml)
synthesize_speech_from_ssml(service, n_args, accepted) ==
    IF service # "azure"
    THEN [outcome |-> "AttributeError", reached |-> FALSE]
    ELSE IF n_args # 1
    THEN [outcome |-> "TypeError", reached |-> FALSE]
    ELSE IF "speechsdk" \notin azure_attributes
    THEN [outcome |-> "AttributeError", reached |-> TRUE]
    ELSE [outcome |-> IF accepted THEN "bytes" ELSE "RuntimeError",
          reached |-> TRUE]

\* an intercepted call: the double returns bytes or raises a synthesis error
intercepted_call(accepted) ==
    [outcome |-> IF accepted THEN "bytes" ELSE "SynthesisError",
     reached |-> FALSE]

(***************************************************************************)
(* audio_concatenator.py: merge_audio_files.  A unit is the tuple          *)
(* <<chunk_index, file_basename, path>>.  The audio of a chunk file is the *)
(* one-element sequence naming the file; AudioSegment's += is \o.          *)
(***************************************************************************)
audio_of(path) == <<path>>

\* line 37: output_dir/<file_basename>.mp3
output_filename(basename) == [base |-> basename, pt |-> -1]

\* mutant: the units are merged in the order they were appended
unsorted(section) == section

\* line 49: sorted(section, key=lambda tup: tup[0]), a stable sort
RECURSIVE sorted(_)
sorted(section) ==
    IF section = <<>> THEN <<>>
    ELSE LET least == CHOOSE k \in 1..Len(section) :
                          \A j \in 1..Len(section) :
                              \/ section[k][1] < section[j][1]
                              \/ section[k][1] = section[j][1] /\ k <= j
             rest == [j \in 1..(Len(section) - 1) |->
                          IF j < least THEN section[j] ELSE section[j + 1]]
         IN <<section[least]>> \o sorted(rest)

\* lines 46-54: the audio of the units whose file exists, in the given order
RECURSIVE merged_audio(_, _)
merged_audio(units, present) ==
    IF units = <<>> THEN <<>>
    ELSE (IF Head(units)[3] \in present THEN audio_of(Head(units)[3]) ELSE <<>>)
         \o merged_audio(Tail(units), present)

\* lines 51-56: the files the loop warns about
missing_warnings(section, present) ==
    {section[k][3] : k \in {j \in 1..Len(section) : section[j][3] \notin present}}

\* an artifact written to the output directory replaces one of the same name
put_file(files, name, audio) ==
    {f \in files : f[1] # name} \cup {<<name, audio>>}

\* lines 32-66, from group g on: output is the list returned, files the
\* artifacts in the output directory, warnings the files reported missing
RECURSIVE merge_from(_, _, _, _, _, _)
merge_from(list, g, present, output, files, warnings) ==
    IF g > Len(list) THEN [output |-> output, files |-> files,
                           warnings |-> warnings]
    ELSE LET section == list[g] IN
         IF section = <<>>
         THEN merge_from(list, g + 1, present, output, files, warnings)
         ELSE LET name == output_filename(section[1][2]) IN
              IF Len(section) = 1
              THEN IF section[1][3] \in present
                   THEN merge_from(list, g + 1, present, Append(output, name),
                                   put_file(files, name, audio_of(section[1][3])),
                                   warnings)
                   ELSE merge_from(list, g + 1, present, output, files, warnings)
              ELSE merge_from(list, g + 1, present, Append(output, name),
                              put_file(files, name,
                                       merged_audio(sorted(section), present)),
                              warnings \cup missing_warnings(section, present))

merge_audio_files(chunked_audio_list, present) ==
    merge_from(chunked_audio_list, 1, present, <<>>, {}, {})

(***************************************************************************)
(* speech_generator.py: split_markdown_into_sections.  The soup is the     *)
(* parsed HTML of the markdown: a sequence of top-level elements, each a   *)
(* paragraph, a heading, a whitespace string ("nl") or a block (a quote or *)
(* list item) with child elements.  A position is <<t, 0>> for the t-th    *)
(* top-level element and <<t, c>> for the c-th child of it.  The text of   *)
(* an element is kept as the sequence of the positions of the blocks whose *)
(* text it is, so that a block's text can be told apart from equal text of *)
(* another block; elements compare as bs4 compares them, by name and       *)
(* content, never by position.                                             *)
(***************************************************************************)
\* blocks of a document, children counted
MaxBlocks == 3

Leaf(kind, text) == [kind |-> kind, text |-> text, kids |-> <<>>]

Whitespace_node == Leaf("nl", "")

Leaves ==
    {Leaf("p", "t"), Whitespace_node,
     Leaf("h1", "a"), Leaf("h1", "b"), Leaf("h2", "a")}

Elements(b) ==
    Leaves \cup
    {[kind |-> "quote", text |-> "", kids |-> k] :
        k \in UNION {[1..n -> Leaves \ {Whitespace_node}] : n \in 1..b}}

weight(e) == IF e.kind = "quote" THEN Len(e.kids) ELSE 1

\* the documents of at most b blocks
RECURSIVE Soups(_)
Soups(b) ==
    {<<>>} \cup
    UNION {{<<e>> \o d : d \in Soups(b - weight(e))} :
              e \in {x \in Elements(b) : weight(x) <= b}}

no_element == <<0, 0>>

element_at(soup, pos) ==
    IF pos[2] = 0 THEN soup[pos[1]] ELSE soup[pos[1]].kids[pos[2]]

\* element.get_text(): the blocks under the element, in document order
get_text(soup, pos) ==
    LET e == element_at(soup, pos) IN
    IF e.kind = "nl" THEN <<>>
    ELSE IF e.kind = "quote" THEN [c \in 1..Len(e.kids) |-> <<pos[1], c>>]
    ELSE <<pos>>

\* element.next_sibling
next_sibling(soup, pos) ==
    IF pos[2] = 0
    THEN IF pos[1] < Len(soup) THEN <<pos[1] + 1, 0>> ELSE no_element
    ELSE IF pos[2] < Len(soup[pos[1]].kids) THEN <<pos[1], pos[2] + 1>>
         ELSE no_element

\* lines 107-110: the tag names find_all looks for
heading_names(split_at_subheadings) ==
    IF split_at_subheadings THEN {"h1", "h2"} ELSE {"h1"}

\* soup.find_all(names): every match at any depth, in document order
RECURSIVE find_all(_, _, _, _)
find_all(soup, names, t, c) ==
    IF t > Len(soup) THEN <<>>
    ELSE IF c = 0
    THEN (IF soup[t].kind \in names THEN <<<<t, 0>>>> ELSE <<>>)
         \o find_all(soup, names, t, 1)
    ELSE IF c > Len(soup[t].kids) THEN find_all(soup, names, t + 1, 0)
    ELSE (IF soup[t].kids[c].kind \in names THEN <<<<t, c>>>> ELSE <<>>)
         \o find_all(soup, names, t, c + 1)

\* lines 119-126: the loop over soup.contents, from the t-th element on
RECURSIVE intro_parts(_, _, _)
intro_parts(soup, first, t) ==
    IF t > Len(soup) THEN <<>>
    ELSE IF soup[t] = element_at(soup, first) THEN <<>>
    ELSE get_text(soup, <<t, 0>>) \o intro_parts(soup, first, t + 1)

\* lines 139-147: the siblings of heading i from element on, up to the next
\* heading
RECURSIVE content_parts(_, _, _, _)
content_parts(soup, headings, i, element) ==
    IF element = no_element THEN <<>>
    ELSE IF /\ i # Len(headings)
            /\ element_at(soup, element) = element_at(soup, headings[i + 1])
    THEN <<>>
    ELSE get_text(soup, element)
         \o content_parts(soup, headings, i, next_sibling(soup, element))

\* every block of the soup, in document order
RECURSIVE all_blocks(_, _)
all_blocks(soup, t) ==
    IF t > Len(soup) THEN <<>>
    ELSE get_text(soup, <<t, 0>>) \o all_blocks(soup, t + 1)

\* lines 103-152; a section is its title and the blocks of its content
split_markdown_into_sections(soup, split_at_subheadings) ==
    LET headings == find_all(soup, heading_names(split_at_subheadings), 1, 0)
        intro == intro_parts(soup, headings[1], 1)
    IN IF headings = <<>>
       THEN <<[title |-> "Content", blocks |-> all_blocks(soup, 1)]>>
       ELSE (IF intro # <<>> THEN <<[title |-> "Intro", blocks |-> intro]>>
             ELSE <<>>)
            \o [i \in 1..Len(headings) |->
                   [title |-> element_at(soup, headings[i]).text,
                    blocks |-> <<headings[i]>>
                               \o content_parts(soup, headings, i,
                                      next_sibling(soup, headings[i]))]]

SectionerIdle == [phase |-> "idle", soup |-> <<>>,
                  split_at_subheadings |-> FALSE, sections |-> <<>>]

SectionerInputs ==
    {[phase |-> "input", soup |-> d, split_at_subheadings |-> f,
      sections |-> <<>>] : d \in Soups(MaxBlocks), f \in BOOLEAN}

(***************************************************************************)
(* speech_generator.py lines 53-70: the path of a chunk's file, as text.   *)
(* The records of filename above stand for these strings.                  *)
(***************************************************************************)
\* line 57: safe_title[:30]
TitleLimit == 30
\* the greatest section_ix of the units looked at
MaxSectionIx == 99
\* the greatest number of chunks of a section
MaxPieces == 101

RECURSIVE repeat(_, _)
repeat(c, n) == IF n = 0 THEN <<>> ELSE <<c>> \o repeat(c, n - 1)

\* str.lower()
lower(c) == IF c = "A" THEN "a" ELSE c

\* \w, of the characters of the titles
WordChars == {"a", "p", "t", "0", "1", "_"}

\* line 55: re.sub(r'[^\w\s-]', '', title.lower())
RECURSIVE remove_unsafe(_)
remove_unsafe(title) ==
    IF title = <<>> THEN <<>>
    ELSE LET c == lower(Head(title)) IN
         (IF c \in WordChars \cup Whitespace \cup {"-"} THEN <<c>> ELSE <<>>)
         \o remove_unsafe(Tail(title))

\* line 56: re.sub(r'[\s]+', '_', safe_title)
RECURSIVE underscore_whitespace(_)
underscore_whitespace(s) ==
    IF s = <<>> THEN <<>>
    ELSE IF Head(s) \in Whitespace
    THEN <<"_">> \o underscore_whitespace(lstrip(Tail(s)))
    ELSE <<Head(s)>> \o underscore_whitespace(Tail(s))

safe_title(title) == underscore_whitespace(remove_unsafe(title))

digit(n) == <<"0", "1", "2", "3", "4", "5", "6", "7", "8", "9">>[n + 1]

RECURSIVE decimal(_)
decimal(n) ==
    IF n < 10 THEN <<digit(n)>>
    ELSE decimal(n \div 10) \o <<digit(n % 10)>>

\* the format :02d
format_02d(n) == IF n < 10 THEN <<"0">> \o decimal(n) ELSE decimal(n)

\* mutant: the basename is the title alone
basename_without_ordinal(section_ix, title) ==
    SubSeq(safe_title(title), 1,
           IF Len(safe_title(title)) < TitleLimit THEN Len(safe_title(title))
           ELSE TitleLimit)

\* line 57: f"{section_ix+1:02d}_{safe_title[:30]}"
file_basename_text(section_ix, title) ==
    format_02d(section_ix + 1) \o <<"_">>
    \o SubSeq(safe_title(title), 1,
              IF Len(safe_title(title)) < TitleLimit
              THEN Len(safe_title(title)) ELSE TitleLimit)

\* lines 66-69
filename_text(section_ix, title, chunk_ix, n_chunks) ==
    IF n_chunks = 1
    THEN file_basename_text(section_ix, title) \o <<".", "m", "p", "3">>
    ELSE file_basename_text(section_ix, title) \o <<"_", "p", "t">>
         \o format_02d(chunk_ix) \o <<".", "m", "p", "3">>

\* line 70: os.path.join(output_dir, filename)
output_path_text(output_dir, section_ix, title, chunk_ix, n_chunks) ==
    output_dir \o <<"/">> \o filename_text(section_ix, title, chunk_ix, n_chunks)

\* section titles: empty, nothing left after sanitizing, the same but for
\* case, whitespace runs, a title ending in _ptNN, titles past the limit
Titles ==
    {<<>>, <<"!">>, <<"a">>, <<"A">>, <<"a", " ", "\n", "a">>,
     <<"a", "_", "a">>, <<"a", "_", "p", "t", "0", "1">>, <<"a", "-", "1">>,
     repeat("a", TitleLimit + 1), repeat("a", TitleLimit) \o <<"!">>}

\* a unit of a run: a chunk of a section
Units ==
    {u \in [section_ix : {0, 1, MaxSectionIx - 1, MaxSectionIx},
            title : Titles,
            n_chunks : {1, 2, MaxPieces},
            chunk_ix : {0, 1, MaxPieces - 2, MaxPieces - 1}] :
        u.chunk_ix < u.n_chunks}

NamerIdle == [phase |-> "idle", units |-> <<>>, paths |-> <<>>]

\* two units of one run: a section has one title and one number of chunks
same_run(a, b) ==
    a.section_ix = b.section_ix
    => (a.title = b.title /\ a.n_chunks = b.n_chunks)

NamerInputs ==
    {[phase |-> "input", units |-> pair, paths |-> <<>>] :
        pair \in {q \in Units \X Units : same_run(q[1], q[2])}}

(***************************************************************************)
(* The state of the pipeline.                                              *)
(***************************************************************************)
\* the chunk files of directory d among files
files_in(d, files) == {q \in files : q[1] = d}

NotStarted ==
    [pc |-> "init", temp_dir |-> 0, section_ix |-> 0, chunk_ix |-> 0,
     section_audio |-> <<>>, output |-> <<>>, error |-> "none",
     constructed |-> FALSE, prior |-> [j \in Invocations |-> "other"],
     satisfied |-> {}, left_fs |-> {}, merged_audio |-> <<>>, artifacts |-> {}]

PipelineIdle ==
    /\ doc = <<1>>
    /\ opts = [service |-> "openai", voice |-> "none", use_ssml |-> FALSE,
               backend |-> "shipped", entry |-> "speak"]
    /\ now = 1
    /\ fs = {}
    /\ dirs = {}
    /\ removed = {}
    /\ run = [i \in Invocations |-> NotStarted]
    /\ calls = {}

MergerIdle == [phase |-> "idle", list |-> <<>>, present |-> {},
               output |-> <<>>, files |-> {}, warnings |-> {}]

Init ==
    /\ chunker = ChunkerIdle
    /\ merger = MergerIdle
    /\ sectioner = SectionerIdle
    /\ namer = NamerIdle
    /\ doc \in Documents
    /\ opts \in Options
    /\ now = 1
    /\ fs = {}
    /\ dirs = IF opts.entry = "generate" THEN {work_dir} ELSE {}
    /\ removed = {}
    /\ run = [i \in Invocations |-> NotStarted]
    /\ calls = {}

\* What an invocation that starts later will have to know of one at pc:
\* whether its generate_speech_from_markdown had returned (and its temporary
\* directory was not yet removed by it), or it was interrupted.
standing(pc) ==
    CASE pc \in {"merge", "exit", "returned"} -> "returned"
      [] pc \in {"failed", "killed"} -> "interrupted"
      [] OTHER -> "other"

(***************************************************************************)
(* speak, main.py lines 47-135: the temporary directory is made, the voice *)
(* checked, the markdown read; generate_speech_from_markdown then sections *)
(* the text and constructs the speech service (lines 39-51).  Invocations  *)
(* are numbered in the order they start; the clock an invocation reads is  *)
(* at or after the clock the one before it read.                           *)
(***************************************************************************)
Start(i) ==
    /\ run[i].pc = "init"
    /\ opts.entry = "speak"
    /\ \A j \in 1..(i - 1) : run[j].pc # "init"
    /\ \E clock \in now..MaxClock :
       LET d == temp_dir_of(clock)
           r == [run[i] EXCEPT !.temp_dir = d,
                               !.prior = [j \in Invocations |-> standing(run[j].pc)]]
       IN /\ now' = clock
          /\ dirs' = dirs \cup {d}
          /\ run' = [run EXCEPT ![i] =
                IF voice_rejected(opts.service, opts.voice)
                THEN [r EXCEPT !.pc = "config_error", !.error = "BadParameter"]
                ELSE [r EXCEPT !.pc = "loop", !.constructed = TRUE]]
    /\ UNCHANGED <<chunker, merger, sectioner, namer, doc, opts, fs, removed, calls>>

\* generate_speech_from_markdown called on its own, on the working
\* directory: lines 39-51, up to the loop.
Call(i) ==
    /\ run[i].pc = "init"
    /\ opts.entry = "generate"
    /\ \A j \in 1..(i - 1) : run[j].pc # "init"
    /\ run' = [run EXCEPT ![i] =
          [@ EXCEPT !.temp_dir = work_dir,
                    !.prior = [j \in Invocations |-> standing(run[j].pc)],
                    !.pc = "loop", !.constructed = TRUE]]
    /\ UNCHANGED <<chunker, merger, sectioner, namer, doc, opts, now, fs, dirs, removed, calls>>

\* The run record after the chunk at (section_ix, chunk_ix) is dealt with:
\* wrote says whether its unit is appended (line 84); line 88 closes the
\* section, line 90 returns after the last one.  files: the files then.
advance(r, wrote, unit, files) ==
    LET audio == IF wrote THEN Append(r.section_audio, unit) ELSE r.section_audio
        done == [r EXCEPT !.satisfied = @ \cup {<<r.section_ix, r.chunk_ix>>}]
    IN IF r.chunk_ix + 1 < doc[r.section_ix + 1]
       THEN [done EXCEPT !.chunk_ix = @ + 1, !.section_audio = audio]
       ELSE IF r.section_ix + 1 < Len(doc)
       THEN [done EXCEPT !.section_ix = @ + 1, !.chunk_ix = 0,
                         !.section_audio = <<>>,
                         !.output = Append(@, audio)]
       ELSE [done EXCEPT !.pc = IF opts.entry = "speak" THEN "merge"
                                ELSE "returned",
                         !.section_audio = <<>>,
                         !.output = Append(@, audio),
                         !.left_fs = files_in(r.temp_dir, files)]

\* mutant: the error is logged and the loop goes on with the next chunk
continue_after_error(r, error, files) == advance(r, FALSE, <<>>, files)

\* Nothing in lines 64-88, nor in speak, catches what the service raises:
\* the exception ends the run where it stands.
on_synthesis_error(r, error, files) ==
    [r EXCEPT !.pc = "failed", !.error = error,
              !.left_fs = files_in(r.temp_dir, files)]

\* lines 76-79: the call the orchestrator makes, with the chunk as its only
\* argument
service_call(options, accepted) ==
    IF options.backend = "intercepted" THEN intercepted_call(accepted)
    ELSE IF ssml_path(options.use_ssml, options.service)
    THEN synthesize_speech_from_ssml(options.service, 1, accepted)
    ELSE synthesize_speech_from_text(options.service, 1, accepted)

\* line 86, time.sleep(1): when the iteration ends the clock is at least one
\* second past the one the invocation read when it started
after_sleep(r) == IF now > r.temp_dir THEN now ELSE r.temp_dir + 1

\* One iteration of the loop of speech_generator.py lines 64-86.
ProcessChunk(i) ==
    /\ run[i].pc = "loop"
    /\ LET r == run[i]
           n == doc[r.section_ix + 1]
           path == output_path(r.temp_dir, r.section_ix, r.chunk_ix, n)
           unit == <<r.chunk_ix, file_basename(r.section_ix), path>>
       IN IF should_skip(fs, path)
          THEN \* lines 72-74
               /\ run' = [run EXCEPT ![i] = advance(r, FALSE, unit, fs)]
               /\ UNCHANGED <<fs, calls, now>>
          ELSE \E accepted \in BOOLEAN :
               LET res == service_call(opts, accepted)
               IN /\ calls' = calls \cup
                        {[inv |-> i, section_ix |-> r.section_ix,
                          chunk_ix |-> r.chunk_ix,
                          kind |-> IF ssml_path(opts.use_ssml, opts.service)
                                   THEN "ssml" ELSE "text",
                          outcome |-> res.outcome,
                          reached |-> res.reached]}
                  /\ IF res.outcome # "bytes"
                     THEN \* the exception leaves generate_speech_from_markdown
                          /\ run' = [run EXCEPT ![i] =
                                on_synthesis_error(r, res.outcome, fs)]
                          /\ UNCHANGED <<fs, now>>
                     ELSE IF r.temp_dir \notin dirs
                     THEN \* line 81: open() in a directory that is gone
                          /\ run' = [run EXCEPT ![i] =
                                on_synthesis_error(r, "FileNotFoundError", fs)]
                          /\ UNCHANGED <<fs, now>>
                     ELSE \* lines 81-86
                          /\ fs' = fs \cup {path}
                          /\ now' = after_sleep(r)
                          /\ run' = [run EXCEPT ![i] =
                                advance(r, TRUE, unit, fs \cup {path})]
    /\ UNCHANGED <<chunker, merger, sectioner, namer, doc, opts, dirs, removed>>

\* main.py lines 137-140: merge_audio_files (which exits when neither ffmpeg
\* nor libav is installed), then shutil.rmtree(temp_dir).
Finish(i) ==
    /\ run[i].pc = "merge"
    /\ \E framework \in BOOLEAN :
       LET r == run[i]
           m == merge_audio_files(r.output, fs)
           merged == [r EXCEPT !.merged_audio = m.output, !.artifacts = m.files]
       IN IF ~framework
          THEN /\ run' = [run EXCEPT ![i] = [r EXCEPT !.pc = "exit",
                                                     !.error = "SystemExit"]]
               /\ UNCHANGED <<fs, dirs, removed>>
          ELSE IF r.temp_dir \notin dirs
          THEN /\ run' = [run EXCEPT ![i] =
                     [merged EXCEPT !.pc = "crashed",
                                    !.error = "FileNotFoundError"]]
               /\ UNCHANGED <<fs, dirs, removed>>
          ELSE /\ run' = [run EXCEPT ![i] = [merged EXCEPT !.pc = "done"]]
               /\ fs' = {p \in fs : p[1] # r.temp_dir}
               /\ dirs' = dirs \ {r.temp_dir}
               /\ removed' = removed \cup {[dir |-> r.temp_dir, by |-> i]}
    /\ UNCHANGED <<chunker, merger, sectioner, namer, doc, opts, now, calls>>

\* The process is killed while it works.
Kill(i) ==
    /\ run[i].pc \in {"loop", "merge"}
    /\ run' = [run EXCEPT ![i] =
          [@ EXCEPT !.pc = "killed", !.error = "killed",
                    !.left_fs = IF run[i].pc = "loop"
                                THEN files_in(run[i].temp_dir, fs) ELSE @]]
    /\ UNCHANGED <<chunker, merger, sectioner, namer, doc, opts, now, fs, dirs, removed, calls>>

Next ==
    \/ \E i \in Invocations : Start(i)
    \/ \E i \in Invocations : Call(i)
    \/ \E i \in Invocations : ProcessChunk(i)
    \/ \E i \in Invocations : Finish(i)
    \/ \E i \in Invocations : Kill(i)

Spec == Init /\ [][Next]_vars

\* the chunker alone
InitChunker ==
    /\ chunker \in ChunkerInputs
    /\ merger = MergerIdle
    /\ sectioner = SectionerIdle
    /\ namer = NamerIdle
    /\ PipelineIdle

SpecChunker == InitChunker /\ [][SplitContent]_vars

\* the sectioner alone
SplitSections ==
    /\ sectioner.phase = "input"
    /\ sectioner' = [sectioner EXCEPT
          !.phase = "split",
          !.sections = split_markdown_into_sections(sectioner.soup,
                           sectioner.split_at_subheadings)]
    /\ UNCHANGED <<chunker, merger, namer, pipeline_vars>>

InitSectioner ==
    /\ chunker = ChunkerIdle
    /\ merger = MergerIdle
    /\ sectioner \in SectionerInputs
    /\ namer = NamerIdle
    /\ PipelineIdle

SpecSectioner == InitSectioner /\ [][SplitSections]_vars

\* the naming of the chunk files alone, in the directory "d"
NamePaths ==
    /\ namer.phase = "input"
    /\ namer' = [namer EXCEPT
          !.phase = "named",
          !.paths = [k \in 1..Len(namer.units) |->
                        output_path_text(<<"d">>, namer.units[k].section_ix,
                                         namer.units[k].title,
                                         namer.units[k].chunk_ix,
                                         namer.units[k].n_chunks)]]
    /\ UNCHANGED <<chunker, merger, sectioner, pipeline_vars>>

InitNamer ==
    /\ chunker = ChunkerIdle
    /\ merger = MergerIdle
    /\ sectioner = SectionerIdle
    /\ namer \in NamerInputs
    /\ PipelineIdle

SpecNamer == InitNamer /\ [][NamePaths]_vars

\* the concatenator alone
MaxGroups == 2
\* units of one group
MaxUnits == 3

append_orders ==
    {p \in [1..MaxUnits -> 1..MaxUnits] :
        \A a, b \in 1..MaxUnits : a # b => p[a] # p[b]}

\* the chunk numbers 1..n in the order the permutation lists them
RECURSIVE order(_, _)
order(p, n) ==
    IF p = <<>> THEN <<>>
    ELSE (IF Head(p) <= n THEN <<Head(p)>> ELSE <<>>) \o order(Tail(p), n)

\* The group of section g with n chunks, its units appended in the order p:
\* the tuples of speech_generator.py line 84.
group_of(g, n, p) ==
    [k \in 1..n |->
        <<order(p, n)[k] - 1, file_basename(g - 1),
          output_path(temp_dir_of(1), g - 1, order(p, n)[k] - 1, n)>>]

unit_paths(list) ==
    UNION {{list[g][k][3] : k \in 1..Len(list[g])} : g \in 1..Len(list)}

group_lists ==
    UNION {{[g \in 1..n |-> group_of(g, sizes[g], p)] :
               sizes \in [1..n -> 0..MaxUnits], p \in append_orders} :
           n \in 0..MaxGroups}

\* every chunk file exists, or all but one do
MergerInputs ==
    UNION {{[phase |-> "input", list |-> list, present |-> unit_paths(list) \ gone,
             output |-> <<>>, files |-> {}, warnings |-> {}] :
               gone \in {{}} \cup {{q} : q \in unit_paths(list)}} :
           list \in group_lists}

MergeFiles ==
    /\ merger.phase = "input"
    /\ LET m == merge_audio_files(merger.list, merger.present) IN
       merger' = [merger EXCEPT !.phase = "merged", !.output = m.output,
                                !.files = m.files, !.warnings = m.warnings]
    /\ UNCHANGED <<chunker, sectioner, namer, pipeline_vars>>

InitMerger ==
    /\ chunker = ChunkerIdle
    /\ merger \in MergerInputs
    /\ sectioner = SectionerIdle
    /\ namer = NamerIdle
    /\ PipelineIdle

SpecMerger == InitMerger /\ [][MergeFiles]_vars

(***************************************************************************)
(* What the claims read.                                                   *)
(***************************************************************************)
calls_of(i) == {c \in calls : c.inv = i}

\* the path invocation i computes for the chunk of call c
path_in(i, c) ==
    output_path(run[i].temp_dir, c.section_ix, c.chunk_ix, doc[c.section_ix + 1])


\* shutil.rmtree has removed directory d at some time
was_removed(d) == \E r \in removed : r.dir = d

\* a call of invocation i on the speech service has failed
call_failed(i) == \E c \in calls : c.inv = i /\ c.outcome # "bytes"

\* position a before position b in processing order
earlier(a, b) == a[1] < b[1] \/ (a[1] = b[1] /\ a[2] < b[2])

(***************************************************************************)
(* C1  Idempotence of the orchestrator.  When a run of                     *)
(* generate_speech_from_markdown starts after another run on the same      *)
(* directory and document has returned, and the directory has not been     *)
(* removed since, it makes no call on the speech service (and so writes    *)
(* nothing) for any chunk whose file existed when the first run returned.  *)
(***************************************************************************)
C1_Idempotence ==
    \A i, j \in Invocations :
        (/\ i # j
         /\ run[j].prior[i] = "returned"
         /\ run[i].temp_dir = run[j].temp_dir
         /\ ~was_removed(run[j].temp_dir))
        => \A c \in calls_of(j) : path_in(j, c) \notin run[i].left_fs

\* a second run has gone through the whole document after a first one
\* returned, and skipped chunks the first run left
C1_Witness ==
    \E i, j \in Invocations :
        /\ i # j
        /\ run[j].prior[i] = "returned"
        /\ run[i].temp_dir = run[j].temp_dir
        /\ ~was_removed(run[j].temp_dir)
        /\ run[j].pc = "returned"
        /\ run[i].left_fs # {}
        /\ Cardinality(run[j].satisfied) >= 2
        /\ calls_of(j) = {}

(***************************************************************************)
(* C2  Resumability across invocations.  An invocation of speak that       *)
(* starts after                                                            *)
(* another one was interrupted (killed, or aborted by a failed call) makes *)
(* no call on the speech service for a chunk the interrupted invocation    *)
(* had already found or put at its computed path.                          *)
(***************************************************************************)
C2_ResumesMissingOnly ==
    \A i, j \in Invocations :
        (opts.entry = "speak" /\ i # j /\ run[j].prior[i] = "interrupted")
        => \A c \in calls_of(j) :
               <<c.section_ix, c.chunk_ix>> \notin run[i].satisfied

(***************************************************************************)
(* C3  Chunk size bound, as claimed: a chunk longer than max_chars is made *)
(* of exactly one sentence, and that '. '-delimited piece is itself longer *)
(* than max_chars.  (Read on the results that hold no empty chunk.)        *)
(***************************************************************************)
no_empty_chunk == \A k \in 1..Len(chunker.chunks) : chunker.chunks[k] # <<>>

RECURSIVE join(_, _)
join(strings, delimiter) ==
    IF strings = <<>> THEN <<>>
    ELSE IF Len(strings) = 1 THEN strings[1]
    ELSE strings[1] \o delimiter \o join(Tail(strings), delimiter)

RECURSIVE without_whitespace(_)
without_whitespace(s) ==
    IF s = <<>> THEN <<>>
    ELSE (IF Head(s) \in Whitespace THEN <<>> ELSE <<Head(s)>>)
         \o without_whitespace(Tail(s))

C4_JoinedWithDelimiter ==
    (chunker.phase = "split" /\ no_empty_chunk) =>
        without_whitespace(join(chunker.chunks, <<".", " ">>))
            = without_whitespace(chunker.content)

\* s is the strings of parts in order, with whitespace only before, between
\* and after them
RECURSIVE trimmed_parts(_, _)
trimmed_parts(s, parts) ==
    LET t == lstrip(s) IN
    IF parts = <<>> THEN t = <<>>
    ELSE /\ Len(Head(parts)) <= Len(t)
         /\ SubSeq(t, 1, Len(Head(parts))) = Head(parts)
         /\ trimmed_parts(Drop(t, Len(Head(parts)) + 1), Tail(parts))

(***************************************************************************)
(* C4 amended: the content is the chunks in index order with nothing but   *)
(* whitespace before, between and after them: the whitespace trimmed at    *)
(* the chunk boundaries, which takes the space of the ". " a chunk ends on *)
(* and leaves its period on the chunk.                                     *)
(***************************************************************************)
C4_RoundTrip ==
    chunker.phase = "split" => trimmed_parts(chunker.content, chunker.chunks)

\* three chunks, with more than the delimiter's space trimmed somewhere
C4_Witness ==
    /\ chunker.phase = "split"
    /\ Len(chunker.chunks) >= 3
    /\ no_empty_chunk
    /\ Len(join(chunker.chunks, <<" ">>)) < Len(chunker.content)

(***************************************************************************)
(* C5  Backend interchangeability: a call of synthesize_speech_from_text   *)
(* with the chunk as its only argument returns the audio bytes or fails    *)
(* with the provider's synthesis error, whichever service is selected.     *)
(***************************************************************************)
C5_TextCallSynthesizes ==
    opts.backend = "shipped" =>
        \A c \in calls :
            c.kind = "text"
            => c.outcome \in {"bytes", "RuntimeError", "ProviderError"}

(***************************************************************************)
(* C6  Markup-mode validation: with use_ssml and a service that has no     *)
(* SSML operation (openai, google) no call is made on the speech service.  *)
(***************************************************************************)
C6_MarkupRejected ==
    (opts.use_ssml /\ opts.service \in {"openai", "google"})
    => /\ calls = {}
       /\ \A i \in Invocations : ~run[i].constructed

(***************************************************************************)
(* C7  Voice-alias validation: with a voice that is not an alias of the    *)
(* selected service, an invocation that has started has failed with        *)
(* click.BadParameter, has constructed no speech service and has called    *)
(* none.                                                                   *)
(***************************************************************************)
C7_VoiceValidated ==
    (opts.voice # "none" /\ opts.voice \notin valid_voices(opts.service))
    => \A i \in Invocations :
           run[i].pc # "init"
           => /\ run[i].pc = "config_error"
              /\ run[i].error = "BadParameter"
              /\ ~run[i].constructed
              /\ calls_of(i) = {}

\* an alias of another service was passed and the invocation was refused
C7_Witness ==
    /\ opts.service = "google"
    /\ opts.voice = "alloy"
    /\ \E i \in Invocations : run[i].pc = "config_error"

(***************************************************************************)
(* C8  Synthesis failure.  The step in which a call of an invocation fails *)
(* stops the invocation with that error and leaves every chunk file and    *)
(* directory in place; from then on the invocation does nothing: no call   *)
(* for a later chunk or section, no merge, no removal of its temporary     *)
(* directory.                                                              *)
(***************************************************************************)
C8_FailureAborts ==
    [][\A i \in Invocations :
          /\ (~call_failed(i) /\ call_failed(i)')
             => /\ run'[i].pc = "failed"
                /\ \E c \in calls' \ calls :
                       c.inv = i /\ run'[i].error = c.outcome
                /\ fs' = fs
                /\ dirs' = dirs
          /\ call_failed(i)
             => /\ run'[i] = run[i]
                /\ calls_of(i)' = calls_of(i)
                /\ run[i].merged_audio = <<>>
                /\ run[i].artifacts = {}
                /\ \A r \in removed' : r.by # i]_vars

\* a failure on a later chunk, with an earlier chunk's file in place, and
\* another invocation at work after it
C8_Witness ==
    \E c \in calls :
        /\ c.outcome # "bytes"
        /\ run[c.inv].pc = "failed"
        /\ run[c.inv].left_fs # {}
        /\ run[c.inv].left_fs \subseteq fs
        /\ \E j \in Invocations : j # c.inv /\ run[j].prior[c.inv] = "interrupted"

(***************************************************************************)
(* C9  Run isolation: two invocations of speak that have started have      *)
(* distinct                                                                *)
(* temporary directories.                                                  *)
(***************************************************************************)
C9_DistinctTempDirs ==
    \A i, j \in Invocations :
        (/\ opts.entry = "speak"
         /\ i # j
         /\ run[i].pc # "init"
         /\ run[j].pc # "init")
        => run[i].temp_dir # run[j].temp_dir

(***************************************************************************)
(* C10  Ordered reassembly: for a group of two or more units whose files   *)
(* all exist the output directory holds exactly one artifact of the        *)
(* group's basename, whose audio is the chunks' audio in ascending chunk   *)
(* index, in whatever order the units were appended; and the paths         *)
(* returned are those of the groups that gave an artifact, in the order of *)
(* the groups.                                                             *)
(***************************************************************************)
\* the audio of the units of a section by ascending chunk index
ascending_audio(section) ==
    [c \in 1..Len(section) |->
        (CHOOSE k \in 1..Len(section) : section[k][1] = c - 1)] 

RECURSIVE expected_names(_, _)
expected_names(list, present) ==
    IF list = <<>> THEN <<>>
    ELSE (IF \/ Len(Head(list)) >= 2
             \/ (Len(Head(list)) = 1 /\ Head(list)[1][3] \in present)
          THEN <<output_filename(Head(list)[1][2])>> ELSE <<>>)
         \o expected_names(Tail(list), present)

C10_OrderedReassembly ==
    merger.phase = "merged" =>
        /\ \A g \in 1..Len(merger.list) :
               LET section == merger.list[g] IN
               (/\ Len(section) >= 2
                /\ \A k \in 1..Len(section) : section[k][3] \in merger.present)
               => {f \in merger.files : f[1] = output_filename(section[1][2])}
                      = {<<output_filename(section[1][2]),
                           [c \in 1..Len(section) |->
                               section[ascending_audio(section)[c]][3]]>>}
        /\ merger.output = expected_names(merger.list, merger.present)

\* two groups merged, one of three units appended out of order
C10_Witness ==
    /\ merger.phase = "merged"
    /\ Len(merger.list) = 2
    /\ Len(merger.output) = 2
    /\ unit_paths(merger.list) = merger.present
    /\ \E g \in 1..2 :
           /\ Len(merger.list[g]) = 3
           /\ merger.list[g][1][1] > merger.list[g][2][1]

(***************************************************************************)
(* C11  Missing chunk at merge time.  For a group of any size, a unit      *)
(* whose file does not exist when merge_audio_files runs is reported in a  *)
(* warning; the units of the group whose files exist are merged in         *)
(* ascending chunk order, and every group after it is still processed.     *)
(***************************************************************************)
\* the units of the section whose file exists, in ascending chunk order
present_audio(section, present) == merged_audio(sorted(section), present)

C11_MissingChunkWarned ==
    merger.phase = "merged" =>
        \A g \in 1..Len(merger.list) :
            LET section == merger.list[g] IN
            \A k \in 1..Len(section) :
                section[k][3] \notin merger.present
                => /\ section[k][3] \in merger.warnings
                   /\ \A h \in g..Len(merger.list) :
                          LET later == merger.list[h] IN
                          (\E u \in 1..Len(later) : later[u][3] \in merger.present)
                          => <<output_filename(later[1][2]),
                               present_audio(later, merger.present)>>
                                 \in merger.files

(***************************************************************************)
(* C12  Section partition.  For a document with at least one selected      *)
(* heading, nested or not, every block of the document has its text in the *)
(* sections exactly once, and the "Intro" section holds only blocks that   *)
(* precede the first selected heading.                                     *)
(***************************************************************************)
RECURSIVE section_blocks(_)
section_blocks(sections) ==
    IF sections = <<>> THEN <<>>
    ELSE Head(sections).blocks \o section_blocks(Tail(sections))

occurrences(b, blocks) == Cardinality({k \in 1..Len(blocks) : blocks[k] = b})

precedes(a, b) == a[1] < b[1] \/ (a[1] = b[1] /\ a[2] < b[2])

selected_headings ==
    find_all(sectioner.soup, heading_names(sectioner.split_at_subheadings), 1, 0)

C12_SectionPartition ==
    (sectioner.phase = "split" /\ selected_headings # <<>>) =>
        LET blocks == all_blocks(sectioner.soup, 1)
            found == section_blocks(sectioner.sections)
        IN /\ \A k \in 1..Len(blocks) : occurrences(blocks[k], found) = 1
           /\ sectioner.sections[1].title = "Intro"
              => \A k \in 1..Len(sectioner.sections[1].blocks) :
                     precedes(sectioner.sections[1].blocks[k],
                              selected_headings[1])

(***************************************************************************)
(* C13  Unit recording covers skipped chunks.  When                        *)
(* generate_speech_from_markdown has returned, the group of each section   *)
(* holds the unit of every chunk of the section whose file existed at its  *)
(* computed path at the return, written by this run or skipped by it.      *)
(***************************************************************************)
has_returned(i) == standing(run[i].pc) = "returned"

C13_UnitsCoverSkipped ==
    \A i \in Invocations :
        has_returned(i) =>
            \A section_ix \in 0..(Len(doc) - 1) :
                \A chunk_ix \in 0..(doc[section_ix + 1] - 1) :
                    LET path == output_path(run[i].temp_dir, section_ix,
                                            chunk_ix, doc[section_ix + 1])
                        group == run[i].output[section_ix + 1]
                    IN path \in run[i].left_fs
                       => \E k \in 1..Len(group) :
                              group[k] = <<chunk_ix, file_basename(section_ix),
                                           path>>

(***************************************************************************)
(* C14  No empty chunk.  For every content and every max_chars > 0, no     *)
(* chunk returned by split_content_into_chunks is the empty string.        *)
(***************************************************************************)
C14_NoEmptyChunk ==
    chunker.phase = "split" =>
        \A k \in 1..Len(chunker.chunks) : Len(chunker.chunks[k]) > 0

(***************************************************************************)
(* C15  Output path injectivity.  Within one run, two units that differ in *)
(* section index or chunk index have different output paths, whatever the  *)
(* titles of their sections.                                               *)
(***************************************************************************)
C15_PathsInjective ==
    (/\ namer.phase = "named"
     /\ \/ namer.units[1].section_ix # namer.units[2].section_ix
        \/ namer.units[1].chunk_ix # namer.units[2].chunk_ix)
    => namer.paths[1] # namer.paths[2]

\* a chunk _pt01 of a section titled "a" and the only chunk of a section
\* titled "a_pt01": the names are the same after the ordinal
C15_Witness ==
    /\ namer.phase = "named"
    /\ namer.units[1].section_ix = 0
    /\ namer.units[2].section_ix = 1
    /\ namer.units[1].n_chunks > 1
    /\ namer.units[2].n_chunks = 1
    /\ Drop(namer.paths[1], 5) = Drop(namer.paths[2], 5)

====
